---- MODULE Spec2Model ----
(***************************************************************************)
(* Stripe billing helper of the platform-plan module: the plan-change      *)
(* orchestrator (handleSubscriptionUpdate), the immediate updater          *)
(* (updateSubscription), the deferred scheduler (updateSubscriptionSchedule *)
(* and createSubscriptionSchedule), and the addon-only variant of the       *)
(* orchestrator.  The billing provider is modelled by what its API calls    *)
(* do to one customer's subscription items and subscription schedules; any  *)
(* provider call may be rejected.                                           *)
(***************************************************************************)
EXTENDS Integers, Sequences, FiniteSets, TLC

VARIABLES items, schedules, last, calls, subs, platformPlan, redis, ret, procs

vars == <<items, schedules, last, calls, subs, platformPlan, redis, ret, procs>>

\* what the session builder reads and writes, and its last call
sessionVars == <<subs, platformPlan, redis, ret>>

(* ------------------------------ bounds --------------------------------- *)

\* largest addon quantity a request asks for
MaxQty == 1

\* largest number of line items the subscription may hold
MaxItems == 6

\* largest number of requests in one behaviour
MaxCalls == 2

\* largest number of schedules the customer may hold
MaxSchedules == 3

(* ----------------------------- JS values ------------------------------- *)

\* `undefined` for a quantity, an id, a date or a price
Undefined == -1

NoId == 0

NoPrice == "none"

\* a JS string value and a JS object value, as Array.prototype.includes sees them
Str(s) == [t |-> "string", v |-> s]

Obj(o) == [t |-> "object", v |-> o]

\* SameValueZero, the comparison of Array.prototype.includes
SameValueZero(a, b) == a.t = b.t /\ a.v = b.v

Includes(arr, x) == \E i \in 1..Len(arr) : SameValueZero(arr[i], x)

Min(a, b) == IF a <= b THEN a ELSE b

Range(s) == {s[i] : i \in 1..Len(s)}

RECURSIVE SelectIndices(_, _, _)
\* Array.prototype.filter over a list of indices: the elements of s, in
\* order, whose index is in keep
SelectIndices(s, keep, i) ==
    IF i > Len(s) THEN <<>>
    ELSE IF i \in keep THEN <<s[i]>> \o SelectIndices(s, keep, i + 1)
    ELSE SelectIndices(s, keep, i + 1)

(* ------------------------------ catalog -------------------------------- *)

BillingCycle == {"monthly", "annual"}

\* PlanName: the two priced plans and one plan without a price
PlanName == {"free", "plus", "business"}

PLUS_PLAN_PRICE_ID == [monthly |-> "plus_m", annual |-> "plus_a"]

BUSINESS_PLAN_PRICE_ID == [monthly |-> "business_m", annual |-> "business_a"]

AI_CREDIT_PRICE_ID == [monthly |-> "ai_m", annual |-> "ai_a"]

USER_SEAT_PRICE_ID == [monthly |-> "seat_m", annual |-> "seat_a"]

PROJECT_PRICE_ID == [monthly |-> "project_m", annual |-> "project_a"]

ACTIVE_FLOW_PRICE_ID == [monthly |-> "flow_m", annual |-> "flow_a"]

Catalogs == {PLUS_PLAN_PRICE_ID, BUSINESS_PLAN_PRICE_ID, AI_CREDIT_PRICE_ID,
             USER_SEAT_PRICE_ID, PROJECT_PRICE_ID, ACTIVE_FLOW_PRICE_ID}

\* the prices of one billing cycle
CyclePrices(cycle) == {c[cycle] : c \in Catalogs}

BasePrices(cycle) == {PLUS_PLAN_PRICE_ID[cycle], BUSINESS_PLAN_PRICE_ID[cycle]}

AddonCatalogs == {USER_SEAT_PRICE_ID, PROJECT_PRICE_ID, ACTIVE_FLOW_PRICE_ID}

AddonPrices == {c[cy] : c \in AddonCatalogs, cy \in BillingCycle}

(* ------------------------ time: the cycle window ----------------------- *)

\* apDayjs().startOf('month').unix() and apDayjs().endOf('month').unix()
defaultStartDate == 100

defaultEndDate == 130

\* current_period_start / current_period_end of the subscription's items
current_period_start == 110

current_period_end == 140

\* getSubscriptionCycleDates: the window of the first item whose price id is
\* an element of the array [ACTIVE_FLOW_PRICE_ID]; the calendar month if none
getSubscriptionCycleDates(subItems) ==
    LET hit == {i \in 1..Len(subItems) :
                   Includes(<<Obj(ACTIVE_FLOW_PRICE_ID)>>, Str(subItems[i].price))}
    IN  IF hit = {}
        THEN [startDate |-> defaultStartDate, endDate |-> defaultEndDate]
        ELSE [startDate |-> current_period_start, endDate |-> current_period_end]

\* subscription.cancel_at: null (Undefined here) or a time
CancelAts == {Undefined, 150}

\* getSubscriptionCycleDates with the cancel date it returns:
\* subscription.cancel_at ?? undefined when an item was found, undefined if not
getSubscriptionCycleDatesOf(subItems, cancel_at) ==
    LET hit == {i \in 1..Len(subItems) :
                   Includes(<<Obj(ACTIVE_FLOW_PRICE_ID)>>, Str(subItems[i].price))}
        window == getSubscriptionCycleDates(subItems)
    IN  [startDate |-> window.startDate, endDate |-> window.endDate,
         cancelDate |-> IF hit = {} THEN Undefined ELSE cancel_at]

\* the single active-flow price of the addon-only variant
AddonOnly_ACTIVE_FLOW_PRICE_ID == ACTIVE_FLOW_PRICE_ID["monthly"]

\* getSubscriptionCycleDates of the addon-only variant, where
\* ACTIVE_FLOW_PRICE_ID is one price id compared with ===
AddonOnly_getSubscriptionCycleDates(subItems, cancel_at) ==
    LET hit == {i \in 1..Len(subItems) :
                   subItems[i].price = AddonOnly_ACTIVE_FLOW_PRICE_ID}
    IN  IF hit = {}
        THEN [startDate |-> defaultStartDate, endDate |-> defaultEndDate,
              cancelDate |-> Undefined]
        ELSE [startDate |-> current_period_start, endDate |-> current_period_end,
              cancelDate |-> cancel_at]

(* ---------------------- immediate plan updater ------------------------- *)

\* findItem: the first item whose price id is one of priceIds (0 when none)
findItem(subItems, priceIds) ==
    LET hit == {i \in 1..Len(subItems) : subItems[i].price \in priceIds}
    IN  IF hit = {} THEN 0 ELSE CHOOSE i \in hit : \A j \in hit : i <= j

\* item?.id
IdOf(subItems, i) == IF i = 0 THEN NoId ELSE subItems[i].id

\* the base price the code picks for a plan: PLUS's, else BUSINESS's
planPrice(plan, cycle) ==
    IF plan = "plus" THEN PLUS_PLAN_PRICE_ID[cycle] ELSE BUSINESS_PLAN_PRICE_ID[cycle]

\* handleOptionalItem: the batch entries for one addon
handleOptionalItem(quantity, priceId, currentId, sameCycle) ==
    IF quantity > 0
    THEN <<[id |-> IF sameCycle THEN currentId ELSE NoId,
            price |-> priceId, quantity |-> quantity, deleted |-> FALSE]>>
    ELSE IF sameCycle /\ currentId # NoId
         THEN <<[id |-> currentId, price |-> NoPrice,
                 quantity |-> Undefined, deleted |-> TRUE]>>
         ELSE <<>>

\* the proration_behavior updateSubscription passes with the batch
proration_behavior == "always_invoice"

\* the item batch updateSubscription submits
updateSubscriptionItems(subItems, req) ==
    LET cur == req.currentCycle
        new == req.newCycle
        same == (new = cur)
        currentPlanItem        == findItem(subItems, BasePrices(cur))
        currentAICreditsItem   == findItem(subItems, {AI_CREDIT_PRICE_ID[cur]})
        currentUserSeatsItem   == findItem(subItems, {USER_SEAT_PRICE_ID[cur]})
        currentActiveFlowsItem == findItem(subItems, {ACTIVE_FLOW_PRICE_ID[cur]})
        currentProjectsItem    == findItem(subItems, {PROJECT_PRICE_ID[cur]})
        found == <<currentPlanItem, currentAICreditsItem, currentUserSeatsItem,
                   currentActiveFlowsItem, currentProjectsItem>>
        deletions ==
            IF same THEN <<>>
            ELSE [k \in 1..Cardinality({j \in 1..5 : found[j] # 0}) |->
                    LET kept == SelectIndices(found, {j \in 1..5 : found[j] # 0}, 1)
                    IN  [id |-> subItems[kept[k]].id, price |-> NoPrice,
                         quantity |-> Undefined, deleted |-> TRUE]]
        base == <<[id |-> IF same THEN IdOf(subItems, currentPlanItem) ELSE NoId,
                   price |-> planPrice(req.newPlan, new),
                   quantity |-> 1, deleted |-> FALSE]>>
        credits == <<[id |-> IF same THEN IdOf(subItems, currentAICreditsItem) ELSE NoId,
                      price |-> AI_CREDIT_PRICE_ID[new],
                      quantity |-> Undefined, deleted |-> FALSE]>>
    IN  deletions \o base \o credits
        \o handleOptionalItem(req.extraUserSeats, USER_SEAT_PRICE_ID[new],
                              IdOf(subItems, currentUserSeatsItem), same)
        \o handleOptionalItem(req.extraActiveFlows, ACTIVE_FLOW_PRICE_ID[new],
                              IdOf(subItems, currentActiveFlowsItem), same)
        \o handleOptionalItem(req.extraProjects, PROJECT_PRICE_ID[new],
                              IdOf(subItems, currentProjectsItem), same)

(* --------------------- provider: subscription items -------------------- *)

\* the smallest positive id outside used
FreshId(used) == CHOOSE n \in 1..(Cardinality(used) + 1) : n \notin used

RECURSIVE ApplyItems(_, _, _)
\* stripe.subscriptions.update(id, {items}): an entry with deleted removes the
\* item of that id, an entry with an id rewrites that item, an entry without
\* an id adds a line item
ApplyItems(subItems, batch, used) ==
    IF batch = <<>> THEN subItems
    ELSE LET e == Head(batch)
             at == {i \in 1..Len(subItems) : subItems[i].id = e.id}
         IN  IF e.deleted
             THEN ApplyItems(SelectIndices(subItems, (1..Len(subItems)) \ at, 1),
                             Tail(batch), used)
             ELSE IF e.id # NoId
             THEN ApplyItems([i \in 1..Len(subItems) |->
                                IF i \in at
                                THEN [id |-> e.id, price |-> e.price,
                                      quantity |-> IF e.quantity = Undefined
                                                   THEN subItems[i].quantity
                                                   ELSE e.quantity]
                                ELSE subItems[i]],
                             Tail(batch), used)
             ELSE LET n == FreshId(used)
                  IN  ApplyItems(Append(subItems,
                                        [id |-> n, price |-> e.price,
                                         quantity |-> e.quantity]),
                                 Tail(batch), used \cup {n})

ItemIds(subItems) == {subItems[i].id : i \in 1..Len(subItems)}

subscriptionsUpdate(subItems, batch) == ApplyItems(subItems, batch, ItemIds(subItems))

(* ---------------------- deferred plan scheduler ------------------------ *)

\* buildPhaseItems
buildPhaseItems(cycle, plan, userSeats, projects, activeFlows) ==
    <<[price |-> planPrice(plan, cycle), quantity |-> 1],
      [price |-> AI_CREDIT_PRICE_ID[cycle], quantity |-> Undefined]>>
    \o (IF userSeats > 0
        THEN <<[price |-> USER_SEAT_PRICE_ID[cycle], quantity |-> userSeats]>>
        ELSE <<>>)
    \o (IF projects > 0
        THEN <<[price |-> PROJECT_PRICE_ID[cycle], quantity |-> projects]>>
        ELSE <<>>)
    \o (IF activeFlows > 0
        THEN <<[price |-> ACTIVE_FLOW_PRICE_ID[cycle], quantity |-> activeFlows]>>
        ELSE <<>>)

\* subscription.items.data.find(item => item.price.id === priceId)?.quantity || 0
QuantityOrZero(subItems, priceId) ==
    LET i == findItem(subItems, {priceId})
    IN  IF i = 0 \/ subItems[i].quantity = Undefined THEN 0 ELSE subItems[i].quantity

\* the plan updateSubscriptionSchedule detects from the items under currentCycle
currentPlanOf(subItems, cur) ==
    IF \E i \in 1..Len(subItems) : subItems[i].price \in BasePrices(cur)
    THEN IF \E i \in 1..Len(subItems) : subItems[i].price = PLUS_PLAN_PRICE_ID[cur]
         THEN "plus" ELSE "business"
    ELSE "plus"

\* the items of phase 1
currentPhaseItems(subItems, req) ==
    IF req.currentCycle = req.newCycle
    THEN [i \in 1..Len(subItems) |->
            [price |-> subItems[i].price, quantity |-> subItems[i].quantity]]
    ELSE buildPhaseItems(req.currentCycle,
                         currentPlanOf(subItems, req.currentCycle),
                         QuantityOrZero(subItems, USER_SEAT_PRICE_ID[req.currentCycle]),
                         QuantityOrZero(subItems, PROJECT_PRICE_ID[req.currentCycle]),
                         QuantityOrZero(subItems, ACTIVE_FLOW_PRICE_ID[req.currentCycle]))

\* the phases updateSubscriptionSchedule submits
schedulePhases(subItems, req) ==
    LET window == getSubscriptionCycleDates(subItems)
    IN  <<[items |-> currentPhaseItems(subItems, req),
           start_date |-> window.startDate, end_date |-> window.endDate]>>
        \o (IF ~req.isFreeDowngrade
            THEN <<[items |-> buildPhaseItems(req.newCycle, req.newPlan,
                                              req.extraUserSeats, req.extraProjects,
                                              req.extraActiveFlows),
                    start_date |-> window.endDate, end_date |-> Undefined]>>
            ELSE <<>>)

\* the end_behavior updateSubscriptionSchedule submits
scheduleEndBehavior(req) == IF req.isFreeDowngrade THEN "cancel" ELSE "release"

(* ------------------- provider: subscription schedules ------------------ *)

ScheduleIds(scheds) == {scheds[i].id : i \in 1..Len(scheds)}

\* stripe.subscriptionSchedules.list({customer, limit: 10})
ListLimit == 10

schedulesList(scheds) == SubSeq(scheds, 1, Min(Len(scheds), ListLimit))

\* stripe.subscriptionSchedules.release(id)
schedulesRelease(scheds, id) ==
    [i \in 1..Len(scheds) |->
        IF scheds[i].id = id
        THEN [scheds[i] EXCEPT !.status = "released", !.subscription = "none",
                               !.released_subscription = scheds[i].subscription]
        ELSE scheds[i]]

\* stripe.subscriptionSchedules.update(id, {phases, end_behavior})
schedulesUpdate(scheds, id, phases, endBehavior) ==
    [i \in 1..Len(scheds) |->
        IF scheds[i].id = id
        THEN [scheds[i] EXCEPT !.phases = phases, !.end_behavior = endBehavior]
        ELSE scheds[i]]

\* stripe.subscriptionSchedules.create({from_subscription}): a schedule bound
\* to the subscription whose single phase is the subscription's items; the
\* provider lists the newest schedule first
schedulesCreate(scheds, subItems) ==
    <<[id |-> FreshId(ScheduleIds(scheds)), subscription |-> "S",
       released_subscription |-> "none", status |-> "active",
       phases |-> <<[items |-> [i \in 1..Len(subItems) |->
                                  [price |-> subItems[i].price,
                                   quantity |-> subItems[i].quantity]],
                     start_date |-> current_period_start,
                     end_date |-> current_period_end]>>,
       end_behavior |-> "release"]>> \o scheds

(* ---------------------- plan-change orchestrator ----------------------- *)

\* HandleSubscriptionUpdateParams
\* the requests explored: at most one addon kind is asked for at a time, a
\* plan without a price comes without addons, an upgrade is to PLUS or
\* BUSINESS (the cast of newPlan), and a free downgrade is a downgrade to the
\* free plan
Requests ==
    {r \in [newPlan : PlanName, newCycle : BillingCycle, currentCycle : BillingCycle,
            extraUserSeats : 0..MaxQty, extraProjects : 0..MaxQty,
            extraActiveFlows : 0..MaxQty, isUpgrade : BOOLEAN,
            isFreeDowngrade : BOOLEAN] :
        /\ Cardinality({k \in {"extraUserSeats", "extraProjects", "extraActiveFlows"} :
                           r[k] > 0}) <= 1
        /\ r.newPlan = "free" =>
              r.extraUserSeats + r.extraProjects + r.extraActiveFlows = 0
        /\ r.isUpgrade => r.newPlan \in {"plus", "business"}
        /\ r.isFreeDowngrade => ~r.isUpgrade /\ r.newPlan = "free"}

\* a filter that keeps only the schedules that have not started
relevantSchedulesNotStartedOnly(scheds) ==
    LET listed == schedulesList(scheds)
    IN  SelectIndices(listed,
                      {i \in 1..Len(listed) : listed[i].status = "not_started"}, 1)

\* relevantSchedules: the listed schedules bound to the subscription, active
\* or not started, in the provider's order
relevantSchedules(scheds) ==
    LET listed == schedulesList(scheds)
    IN  SelectIndices(listed,
                      {i \in 1..Len(listed) :
                          \/ listed[i].subscription = "S"
                          \/ listed[i].status = "active"
                          \/ listed[i].status = "not_started"}, 1)

\* an upgrade that updates the items before it releases the schedules
MutationsUpdateBeforeRelease(subItems, scheds, req) ==
    LET rel == relevantSchedules(scheds)
    IN  IF req.isUpgrade
        THEN <<[call |-> "updateItems", id |-> NoId]>>
             \o [i \in 1..Len(rel) |-> [call |-> "release", id |-> rel[i].id]]
        ELSE IF Len(rel) > 0
             THEN <<[call |-> "updateSchedule", id |-> rel[1].id]>>
                  \o [i \in 1..(Len(rel) - 1) |->
                        [call |-> "release", id |-> rel[i + 1].id]]
             ELSE <<[call |-> "create", id |-> NoId],
                    [call |-> "updateSchedule",
                     id |-> FreshId(ScheduleIds(scheds))]>>

\* an upgrade that leaves the schedules it found as they are
MutationsUpgradeKeepsSchedules(subItems, scheds, req) ==
    LET rel == relevantSchedules(scheds)
    IN  IF req.isUpgrade
        THEN <<[call |-> "updateItems", id |-> NoId]>>
        ELSE IF Len(rel) > 0
             THEN <<[call |-> "updateSchedule", id |-> rel[1].id]>>
                  \o [i \in 1..(Len(rel) - 1) |->
                        [call |-> "release", id |-> rel[i + 1].id]]
             ELSE <<[call |-> "create", id |-> NoId],
                    [call |-> "updateSchedule",
                     id |-> FreshId(ScheduleIds(scheds))]>>

\* a deferred path that creates a schedule without looking for an existing one
MutationsAlwaysCreate(subItems, scheds, req) ==
    LET rel == relevantSchedules(scheds)
    IN  IF req.isUpgrade
        THEN [i \in 1..Len(rel) |-> [call |-> "release", id |-> rel[i].id]]
             \o <<[call |-> "updateItems", id |-> NoId]>>
        ELSE <<[call |-> "create", id |-> NoId],
               [call |-> "updateSchedule", id |-> FreshId(ScheduleIds(scheds))]>>

\* the provider mutations one request issues, in order, computed from the
\* subscription and the schedules it retrieved
Mutations(subItems, scheds, req) ==
    LET rel == relevantSchedules(scheds)
    IN  IF req.isUpgrade
        THEN [i \in 1..Len(rel) |-> [call |-> "release", id |-> rel[i].id]]
             \o <<[call |-> "updateItems", id |-> NoId]>>
        ELSE IF Len(rel) > 0
             THEN <<[call |-> "updateSchedule", id |-> rel[1].id]>>
                  \o [i \in 1..(Len(rel) - 1) |->
                        [call |-> "release", id |-> rel[i + 1].id]]
             ELSE <<[call |-> "create", id |-> NoId],
                    [call |-> "updateSchedule",
                     id |-> FreshId(ScheduleIds(scheds))]>>

\* a scheduler that patches a schedule by appending the phases to those it has
ApplyAppendingPhases(m, prov, subItems, req) ==
    IF m.call = "release"
    THEN [prov EXCEPT !.schedules = schedulesRelease(prov.schedules, m.id)]
    ELSE IF m.call = "updateItems"
    THEN [prov EXCEPT !.items =
            subscriptionsUpdate(prov.items, updateSubscriptionItems(subItems, req))]
    ELSE IF m.call = "updateSchedule"
    THEN [prov EXCEPT !.schedules =
            [i \in 1..Len(prov.schedules) |->
                IF prov.schedules[i].id = m.id
                THEN [prov.schedules[i] EXCEPT
                        !.phases = prov.schedules[i].phases
                                   \o schedulePhases(subItems, req),
                        !.end_behavior = scheduleEndBehavior(req)]
                ELSE prov.schedules[i]]]
    ELSE [prov EXCEPT !.schedules = schedulesCreate(prov.schedules, subItems)]

\* one provider mutation applied to the provider's state; the item batch and
\* the phases are built from the subscription as retrieved at the start
Apply(m, prov, subItems, req) ==
    IF m.call = "release"
    THEN [prov EXCEPT !.schedules = schedulesRelease(prov.schedules, m.id)]
    ELSE IF m.call = "updateItems"
    THEN [prov EXCEPT !.items =
            subscriptionsUpdate(prov.items, updateSubscriptionItems(subItems, req))]
    ELSE IF m.call = "updateSchedule"
    THEN [prov EXCEPT !.schedules =
            schedulesUpdate(prov.schedules, m.id, schedulePhases(subItems, req),
                            scheduleEndBehavior(req))]
    ELSE [prov EXCEPT !.schedules = schedulesCreate(prov.schedules, subItems)]

RECURSIVE Run(_, _, _, _, _)
\* the first n mutations of ms applied in order
Run(ms, n, prov, subItems, req) ==
    IF n = 0 THEN prov
    ELSE Apply(ms[n], Run(ms, n - 1, prov, subItems, req), subItems, req)

\* where a request can fail: obtaining the client, retrieving the
\* subscription, listing the schedules, or the k-th mutation
ReadFailures == {"getStripe", "retrieve", "list"}

\* the text before the query of the template literal the orchestrator returns on
\* success, as written
SuccessPath == "/ setup / billing / success "

ErrorPath == "/setup/billing/error"

\* the strings the orchestrator returns, as the sequences of their words,
\* delimiters and blanks: the template literal of the success return with its
\* two interpolations, and the literal of the catch
successRedirect(action, plan) ==
    <<"/", " ", "setup", " ", "/", " ", "billing", " ", "/", " ", "success", " ",
      "?", " ", "action", " ", "=", " ", action, "&", " ", "plan", "=", plan, " ">>

errorRedirect == <<"/", "setup", "/", "billing", "/", "error">>

\* an orchestrator that obtains the client before its try block
OutcomeClientOutsideTry(fail, req) ==
    IF fail.at = "getStripe"
    THEN [path |-> "raised", action |-> "", plan |-> "", url |-> <<>>]
    ELSE IF fail.at # "none"
    THEN [path |-> ErrorPath, action |-> "", plan |-> "", url |-> errorRedirect]
    ELSE [path |-> SuccessPath,
          action |-> IF req.isUpgrade THEN "upgrade" ELSE "downgrade",
          plan |-> req.newPlan,
          url |-> successRedirect(IF req.isUpgrade THEN "upgrade" ELSE "downgrade",
                                  req.newPlan)]

\* what the try/catch of handleSubscriptionUpdate returns
Outcome(fail, req) ==
    IF fail.at # "none"
    THEN [path |-> ErrorPath, action |-> "", plan |-> "", url |-> errorRedirect]
    ELSE [path |-> SuccessPath,
          action |-> IF req.isUpgrade THEN "upgrade" ELSE "downgrade",
          plan |-> req.newPlan,
          url |-> successRedirect(IF req.isUpgrade THEN "upgrade" ELSE "downgrade",
                                  req.newPlan)]

NoRequest ==
    [newPlan |-> "free", newCycle |-> "monthly", currentCycle |-> "monthly",
     extraUserSeats |-> 0, extraProjects |-> 0, extraActiveFlows |-> 0,
     isUpgrade |-> FALSE, isFreeDowngrade |-> FALSE]

\* the failures a request with mutations ms can meet ("none": no failure)
Failures(ms) ==
    {[at |-> a, k |-> 0] : a \in {"none"} \cup ReadFailures}
    \cup {[at |-> "mutation", k |-> k] : k \in 1..Len(ms)}

NoFailure == [at |-> "none", k |-> 0]

\* logger.info at the end of updateSubscriptionSchedule raises: the k-th
\* mutation, a schedule update, has been made and the exception goes the way of
\* any other through the try of handleSubscriptionUpdate
LogFailures(ms) ==
    {[at |-> "log", k |-> k] : k \in {j \in 1..Len(ms) : ms[j].call = "updateSchedule"}}

\* an orchestrator that catches a rejected call and goes on with the next
AcceptedContinuingAfterFailure(ms, fail) ==
    IF fail.at \in ReadFailures THEN <<>>
    ELSE IF fail.at = "none" THEN ms
    ELSE IF fail.at = "log" THEN SubSeq(ms, 1, fail.k)
    ELSE SubSeq(ms, 1, fail.k - 1) \o SubSeq(ms, fail.k + 1, Len(ms))

\* the mutations the provider has accepted when the request returns: all of
\* them, or those before the first call that failed (the try block is left at
\* the first exception)
Accepted(ms, fail) ==
    SubSeq(ms, 1, IF fail.at \in ReadFailures THEN 0
                  ELSE IF fail.at = "none" THEN Len(ms)
                  ELSE IF fail.at = "log" THEN fail.k ELSE fail.k - 1)

handleSubscriptionUpdate(req, fail) ==
    LET ms == Mutations(items, schedules, req)
        ran == Accepted(ms, fail)
        prov == Run(ran, Len(ran), [items |-> items, schedules |-> schedules],
                    items, req)
        of(call) == {ran[i].id : i \in {j \in 1..Len(ran) : ran[j].call = call}}
    IN  /\ calls < MaxCalls
        /\ last.op \in {"none", "handleSubscriptionUpdate"}
        /\ last.op = "none" \/ last.req = req
        /\ fail \in Failures(ms) \cup LogFailures(ms)
        /\ Len(prov.items) <= MaxItems
        /\ Len(prov.schedules) <= MaxSchedules
        /\ UNCHANGED <<sessionVars, procs>>
        /\ calls' = calls + 1
        /\ items' = prov.items
        /\ schedules' = prov.schedules
        /\ last' = [op |-> "handleSubscriptionUpdate", req |-> req, fail |-> fail,
                    outcome |-> Outcome(fail, req),
                    preItems |-> items, preSchedules |-> schedules,
                    batch |-> IF of("updateItems") # {}
                              THEN updateSubscriptionItems(items, req) ELSE <<>>,
                    attempts |-> ran \o (IF fail.at = "mutation"
                                          THEN <<ms[fail.k]>> ELSE <<>>),
                    updateCalls |-> Cardinality({i \in 1..Len(ran) :
                                                    ran[i].call = "updateItems"}),
                    proration |-> IF of("updateItems") # {}
                                  THEN proration_behavior ELSE "",
                    updated |-> of("updateSchedule"),
                    created |-> IF of("create") # {}
                                THEN {FreshId(ScheduleIds(schedules))} ELSE {},
                    released |-> of("release"),
                    retry |-> last.op = "handleSubscriptionUpdate",
                    prev |-> [outcome |-> last.outcome, updated |-> last.updated,
                              created |-> last.created, fail |-> last.fail,
                              preSchedules |-> last.preSchedules]]

\* a plan change every provider call of which is accepted
PlanChange ==
    \E req \in Requests :
        /\ last.op = "none" \/ last.req = req
        /\ handleSubscriptionUpdate(req, NoFailure)

\* a plan change one provider call of which is rejected
PlanChangeRejected ==
    \E req \in Requests :
        /\ last.op = "none" \/ last.req = req
        /\ \E fail \in Failures(Mutations(items, schedules, req)) \ {NoFailure} :
              handleSubscriptionUpdate(req, fail)

\* a plan change whose audit log entry cannot be written
PlanChangeLogFails ==
    \E req \in Requests :
        /\ last.op = "none" \/ last.req = req
        /\ \E fail \in LogFailures(Mutations(items, schedules, req)) :
              handleSubscriptionUpdate(req, fail)

(* ------------------ addon-only variant of the orchestrator ------------- *)

\* the item batch of the addon-only variant
\* a variant that sends the flow item without the id of the existing one
addonOnlyItemsWithoutId(subItems, extraActiveFlows) ==
    LET existingItem == findItem(subItems, {AddonOnly_ACTIVE_FLOW_PRICE_ID})
    IN  IF extraActiveFlows > 0
        THEN <<[id |-> NoId, price |-> AddonOnly_ACTIVE_FLOW_PRICE_ID,
                quantity |-> extraActiveFlows, deleted |-> FALSE]>>
        ELSE IF existingItem # 0
             THEN <<[id |-> subItems[existingItem].id, price |-> NoPrice,
                     quantity |-> Undefined, deleted |-> TRUE]>>
             ELSE <<>>

addonOnlyItems(subItems, extraActiveFlows) ==
    LET existingItem == findItem(subItems, {AddonOnly_ACTIVE_FLOW_PRICE_ID})
    IN  IF extraActiveFlows > 0
        THEN <<[id |-> IdOf(subItems, existingItem),
                price |-> AddonOnly_ACTIVE_FLOW_PRICE_ID,
                quantity |-> extraActiveFlows, deleted |-> FALSE]>>
        ELSE IF existingItem # 0
             THEN <<[id |-> subItems[existingItem].id, price |-> NoPrice,
                     quantity |-> Undefined, deleted |-> TRUE]>>
             ELSE <<>>

\* the proration_behavior the addon-only variant passes with the batch
AddonOnly_proration_behavior(isUpgrade) ==
    IF isUpgrade THEN "create_prorations" ELSE "none"

AddonOnlySuccessPath == "/setup/billing/success"

\* what the try/catch of the addon-only variant returns
AddonOnlyOutcome(fail, batch, isUpgrade) ==
    LET action == IF batch = <<>> THEN "update"
                  ELSE IF isUpgrade THEN "upgrade" ELSE "downgrade"
    IN  IF fail.at # "none"
        THEN [path |-> ErrorPath, action |-> "", plan |-> "", url |-> errorRedirect]
        ELSE [path |-> AddonOnlySuccessPath, action |-> action, plan |-> "",
              url |-> <<"/", "setup", "/", "billing", "/", "success",
                        "?", "action", "=", action>>]

\* the failures the addon-only variant can meet
AddonOnlyFailures(batch) ==
    {[at |-> a, k |-> 0] : a \in {"none", "getStripe", "retrieve"}}
    \cup {[at |-> "mutation", k |-> k] : k \in 1..Len(batch) }

handleSubscriptionUpdateAddonOnly(extraActiveFlows, isUpgrade, fail) ==
    LET batch == addonOnlyItems(items, extraActiveFlows)
        sent == fail.at = "none" /\ batch # <<>>
        after == IF sent THEN subscriptionsUpdate(items, batch) ELSE items
    IN  /\ calls < MaxCalls
        /\ last.op = "none"
        /\ fail \in AddonOnlyFailures(batch)
        /\ fail.at = "mutation" => fail.k = 1
        /\ Len(after) <= MaxItems
        /\ UNCHANGED <<sessionVars, procs>>
        /\ calls' = calls + 1
        /\ items' = after
        /\ UNCHANGED schedules
        /\ last' = [op |-> "handleSubscriptionUpdateAddonOnly",
                    req |-> [NoRequest EXCEPT !.extraActiveFlows = extraActiveFlows,
                                              !.isUpgrade = isUpgrade],
                    fail |-> fail,
                    outcome |-> AddonOnlyOutcome(fail, batch, isUpgrade),
                    preItems |-> items, preSchedules |-> schedules,
                    batch |-> IF sent THEN batch ELSE <<>>,
                    attempts |-> IF batch # <<>> /\ fail.at \in {"none", "mutation"}
                                 THEN <<[call |-> "updateItems", id |-> NoId]>>
                                 ELSE <<>>,
                    updateCalls |-> IF sent THEN 1 ELSE 0,
                    proration |-> IF sent THEN AddonOnly_proration_behavior(isUpgrade)
                                  ELSE "",
                    updated |-> {}, created |-> {}, released |-> {},
                    retry |-> FALSE,
                    prev |-> [outcome |-> last.outcome, updated |-> last.updated,
                              created |-> last.created, fail |-> last.fail,
                              preSchedules |-> last.preSchedules]]

AddonOnlyChange ==
    \E q \in 0..MaxQty, up \in BOOLEAN :
        handleSubscriptionUpdateAddonOnly(q, up, NoFailure)

AddonOnlyChangeRejected ==
    \E q \in 0..MaxQty, up \in BOOLEAN :
        \E fail \in AddonOnlyFailures(addonOnlyItems(items, q)) \ {NoFailure} :
            handleSubscriptionUpdateAddonOnly(q, up, fail)

(* ------------------ checkout and trial session builder ----------------- *)

\* longest gifted trial, in months
MaxTrialMonths == 2

\* largest number of subscriptions the customer may have had
MaxSubs == 2

\* apDayjs().unix()
now == 115

\* the length of a month and of the default trial, apDayjs().add(14, 'days')
MonthLength == 30

DefaultTrialDays == 14

\* the expiry of a gift offer: 60 * 60 * 15 seconds
GiftTtl == 54000

ApSubscriptionStatus == {"trialing", "active", "canceled", "past_due"}

\* platformPlan.stripeSubscriptionId when it is nil
NoSubscription == 0

\* the store without an offer under the customer's key
NoOffer ==
    [set |-> FALSE, trialPeriodInUnixTime |-> Undefined, trialPlan |-> "none",
     ttl |-> Undefined]

NoPre == [platformPlan |-> <<>>, redis |-> NoOffer, subs |-> <<>>]

NoParams ==
    [trialPeriod |-> 0, plan |-> "none", existingSubscriptionId |-> NoSubscription]

NoReturn ==
    [op |-> "none", params |-> NoParams, obstacle |-> "none",
     result |-> [kind |-> "none", message |-> ""], pre |-> NoPre]

\* getStripe: undefined outside the cloud edition; getOrThrow raises when the
\* secret key is missing
getStripe(obstacle) ==
    IF obstacle = "secretMissing" THEN "raised"
    ELSE IF obstacle = "notCloud" THEN "undefined"
    ELSE "client"

\* a branch of giftTrialForCustomer that treats a canceled subscription as live
giftBranchCanceledIsLive(plan) ==
    IF plan.stripeSubscriptionId = NoSubscription THEN "store"
    ELSE IF plan.stripeSubscriptionStatus = "trialing" THEN "extend"
    ELSE "reject"

\* the branch giftTrialForCustomer takes for a platform plan
giftBranch(plan) ==
    IF \/ plan.stripeSubscriptionId = NoSubscription
       \/ plan.stripeSubscriptionStatus = "canceled"
    THEN "store"
    ELSE IF plan.stripeSubscriptionStatus = "trialing" THEN "extend"
    ELSE "reject"

\* what can stop giftTrialForCustomer, in the order it meets them: the client,
\* the lookups of identity, user and platform plan, and the awaited calls of
\* the branch taken
GiftObstacles(branch) ==
    {"none", "notCloud", "secretMissing", "identityLookup", "noIdentity",
     "userLookup", "notOwner", "planLookup", "noCustomerId"}
    \cup (IF branch = "store" THEN {"redisUse", "planUpdate", "set", "expire"}
          ELSE IF branch = "extend" THEN {"stripeUpdate"}
          ELSE {})

\* what giftTrialForCustomer returns
giftResult(obstacle, branch, email) ==
    IF getStripe(obstacle) = "raised" THEN [kind |-> "raised", message |-> ""]
    ELSE IF getStripe(obstacle) = "undefined"
    THEN [kind |-> "message", message |-> "Stripe not configured"]
    ELSE IF obstacle = "noIdentity"
    THEN [kind |-> "message", message |-> "No user exists with email"]
    ELSE IF obstacle = "notOwner"
    THEN [kind |-> "message", message |-> "User doesn't own any platform"]
    ELSE IF obstacle # "none"
    THEN [kind |-> "message", message |-> "Unknown error, contact support for this."]
    ELSE IF branch = "reject"
    THEN [kind |-> "message", message |-> "User already has active subscription"]
    ELSE [kind |-> "undefined", message |-> ""]

giftTrialForCustomer(trialPeriod, plan, obstacle) ==
    LET branch == giftBranch(platformPlan)
        trialPeriodInUnixTime == now + MonthLength * trialPeriod
    IN  /\ calls < MaxCalls
        /\ obstacle \in GiftObstacles(branch)
        /\ calls' = calls + 1
        /\ platformPlan' =
              IF branch = "store" /\ obstacle \in {"set", "expire", "none"}
              THEN [platformPlan EXCEPT !.eligibleForTrial = plan]
              ELSE platformPlan
        /\ redis' =
              IF branch = "store" /\ obstacle \in {"expire", "none"}
              THEN [set |-> TRUE, trialPeriodInUnixTime |-> trialPeriodInUnixTime,
                    trialPlan |-> plan,
                    ttl |-> IF obstacle = "none" THEN GiftTtl ELSE Undefined]
              ELSE redis
        /\ subs' =
              IF branch = "extend" /\ obstacle = "none"
              THEN [subs EXCEPT ![platformPlan.stripeSubscriptionId].trial_end =
                                    trialPeriodInUnixTime]
              ELSE subs
        /\ ret' = [op |-> "giftTrialForCustomer",
                   params |-> [NoParams EXCEPT !.trialPeriod = trialPeriod,
                                               !.plan = plan],
                   obstacle |-> obstacle,
                   result |-> giftResult(obstacle, branch, "email"),
                   pre |-> [platformPlan |-> platformPlan, redis |-> redis,
                            subs |-> subs]]
        /\ UNCHANGED <<items, schedules, last, procs>>

GiftTrial ==
    \E trialPeriod \in 1..MaxTrialMonths, plan \in {"plus", "business"} :
        giftTrialForCustomer(trialPeriod, plan, "none")

GiftTrialStopped ==
    \E trialPeriod \in 1..MaxTrialMonths, plan \in {"plus", "business"} :
        \E obstacle \in GiftObstacles(giftBranch(platformPlan)) \ {"none"} :
            giftTrialForCustomer(trialPeriod, plan, obstacle)

\* what can stop startTrial: the client, the store, and the provider calls
StartTrialObstacles(existingSubscriptionId) ==
    {"none", "notCloud", "secretMissing", "redisUse", "redisGet", "create"}
    \cup (IF existingSubscriptionId # NoSubscription THEN {"cancel"} ELSE {})

\* parsedGiftTrial?.trialPeriodInUnixTime ?? apDayjs().add(14, 'days').unix()
startTrialPeriod(parsedGiftTrial) ==
    IF parsedGiftTrial.set THEN parsedGiftTrial.trialPeriodInUnixTime
    ELSE now + DefaultTrialDays

\* a trial that takes the requested plan whatever the store holds
startTrialPlanRequested(parsedGiftTrial, plan) == plan

\* parsedGiftTrial?.trialPlan ?? plan
startTrialPlan(parsedGiftTrial, plan) ==
    IF parsedGiftTrial.set THEN parsedGiftTrial.trialPlan ELSE plan

\* a trial that takes any plan for a priced one
planPricesAlwaysDefined(trialPlan) == TRUE

\* prices[trialPlan] is defined: the lookup table has PLUS and BUSINESS only
planPricesDefined(trialPlan) == trialPlan \in {"plus", "business"}

startTrial(plan, existingSubscriptionId, obstacle) ==
    LET trialPeriod == startTrialPeriod(redis)
        trialPlan == startTrialPlan(redis, plan)
        planPrices == IF trialPlan = "plus" THEN PLUS_PLAN_PRICE_ID
                      ELSE BUSINESS_PLAN_PRICE_ID
        valid == planPricesDefined(trialPlan)
        reached(stage) ==
            /\ valid
            /\ obstacle \in (IF stage = "cancel" THEN {"create", "none"} ELSE {"none"})
        canceled == IF existingSubscriptionId # NoSubscription /\ reached("cancel")
                    THEN [subs EXCEPT ![existingSubscriptionId].status = "canceled"]
                    ELSE subs
        created == IF reached("create")
                   THEN Append(canceled,
                               [status |-> "trialing", trial_end |-> trialPeriod,
                                items |-> <<[price |-> planPrices["monthly"],
                                             quantity |-> 1]>>,
                                trialSubscription |-> TRUE])
                   ELSE canceled
    IN  /\ calls < MaxCalls
        /\ obstacle \in StartTrialObstacles(existingSubscriptionId)
        /\ Len(created) <= MaxSubs
        /\ calls' = calls + 1
        /\ subs' = created
        /\ ret' = [op |-> "startTrial",
                   params |-> [NoParams EXCEPT !.plan = plan,
                                  !.existingSubscriptionId = existingSubscriptionId],
                   obstacle |-> obstacle,
                   result |-> IF obstacle = "none" /\ valid
                              THEN [kind |-> "undefined", message |-> ""]
                              ELSE [kind |-> "raised", message |-> ""],
                   pre |-> [platformPlan |-> platformPlan, redis |-> redis,
                            subs |-> subs]]
        /\ UNCHANGED <<items, schedules, last, procs, platformPlan, redis>>

StartTrial ==
    \E plan \in PlanName, existing \in {NoSubscription} \cup (1..Len(subs)) :
        startTrial(plan, existing, "none")

StartTrialStopped ==
    \E plan \in PlanName, existing \in {NoSubscription} \cup (1..Len(subs)) :
        \E obstacle \in StartTrialObstacles(existing) \ {"none"} :
            startTrial(plan, existing, obstacle)

\* the functions that create a checkout session and return its url
CheckoutFunctions ==
    {"createSubscriptionCheckoutUrl", "createNewSubscriptionCheckoutSession",
     "createNewAICreditPaymentCheckoutSession",
     "createNewAICreditAutoTopUpCheckoutSession"}

\* what can stop one: the client, and the provider rejecting sessions.create
CheckoutObstacles == {"none", "notCloud", "secretMissing", "create"}

\* getStripe, assertNotNullOrUndefined, checkout.sessions.create, return
\* session.url: nothing is caught
checkoutResult(obstacle) ==
    IF obstacle = "none" THEN [kind |-> "url", message |-> "session.url"]
    ELSE [kind |-> "raised", message |-> ""]

createCheckoutSession(fn, obstacle) ==
    /\ calls < MaxCalls
    /\ calls' = calls + 1
    /\ ret' = [op |-> fn, params |-> NoParams, obstacle |-> obstacle,
               result |-> checkoutResult(obstacle),
               pre |-> [platformPlan |-> platformPlan, redis |-> redis,
                        subs |-> subs]]
    /\ UNCHANGED <<items, schedules, last, procs, platformPlan, redis, subs>>

CheckoutSession ==
    \E fn \in CheckoutFunctions : createCheckoutSession(fn, "none")

CheckoutSessionStopped ==
    \E fn \in CheckoutFunctions, obstacle \in CheckoutObstacles \ {"none"} :
        createCheckoutSession(fn, obstacle)

\* the provider ends a trial: the subscription becomes active, or is canceled;
\* by then the caller has taken what the last call returned
TrialEnded ==
    \E id \in 1..Len(subs), st \in {"active", "canceled"} :
        /\ subs[id].status = "trialing"
        /\ subs' = [subs EXCEPT ![id].status = st]
        /\ ret' = NoReturn
        /\ UNCHANGED <<items, schedules, last, calls, procs, platformPlan, redis>>

\* the provider's webhook brings the platform plan up to date with the
\* customer's newest subscription
SubscriptionSynced ==
    /\ Len(subs) > 0
    /\ platformPlan' = [platformPlan EXCEPT
                           !.stripeSubscriptionId = Len(subs),
                           !.stripeSubscriptionStatus = subs[Len(subs)].status]
    /\ platformPlan' # platformPlan
    /\ ret' = NoReturn
    /\ UNCHANGED <<items, schedules, last, calls, procs, subs, redis>>

\* the store drops an offer whose expiry has passed
OfferExpired ==
    /\ redis.set /\ redis.ttl # Undefined
    /\ redis' = NoOffer
    /\ ret' = NoReturn
    /\ UNCHANGED <<items, schedules, last, calls, procs, subs, platformPlan>>

\* a platform without subscription and without offer
InitSession ==
    /\ subs = <<>>
    /\ platformPlan = [stripeSubscriptionId |-> NoSubscription,
                       stripeSubscriptionStatus |-> "none",
                       eligibleForTrial |-> "none"]
    /\ redis = NoOffer
    /\ ret = NoReturn

NextSession ==
    \/ GiftTrial
    \/ GiftTrialStopped
    \/ StartTrial
    \/ StartTrialStopped
    \/ CheckoutSession
    \/ CheckoutSessionStopped
    \/ TrialEnded
    \/ SubscriptionSynced
    \/ OfferExpired

(* --------------------------- concurrent requests ------------------------ *)

\* the requests in progress at the same time, one per caller
Procs == {1, 2}

\* the plan changes two callers issue at the same time: each names the cycle
\* the subscription has, keeps it, and asks for seats or for no addon
RaceRequests(subItems) ==
    {r \in Requests :
        /\ r.currentCycle = r.newCycle
        /\ \E i \in 1..Len(subItems) : subItems[i].price \in BasePrices(r.currentCycle)
        /\ r.extraProjects = 0
        /\ r.extraActiveFlows = 0}

\* a caller that has issued no request
IdleProc ==
    [pc |-> "idle", req |-> NoRequest, subscription |-> <<>>, ms |-> <<>>, k |-> 0,
     submitted |-> <<>>, origin |-> <<>>]

InitProcs == procs = [p \in Procs |-> IdleProc]

\* stripe.subscriptions.retrieve: the request keeps the subscription it read
\* (origin: the provider's state when the first of the requests started)
subscriptionsRetrieve(p, req) ==
    /\ procs[p].pc = "idle"
    /\ procs' = [procs EXCEPT ![p] =
                    [@ EXCEPT !.pc = "retrieved", !.req = req, !.subscription = items,
                              !.origin = IF \A q \in Procs : procs[q].pc = "idle"
                                         THEN <<[items |-> items,
                                                 schedules |-> schedules]>>
                                         ELSE procs[CHOOSE q \in Procs :
                                                      procs[q].pc # "idle"].origin]]
    /\ UNCHANGED <<items, schedules, last, calls, sessionVars>>

SubscriptionsRetrieve ==
    \E p \in Procs : \E req \in RaceRequests(items) : subscriptionsRetrieve(p, req)

\* stripe.subscriptionSchedules.list and the filter: the request fixes the
\* calls it will make from the schedules listed now
SchedulesList ==
    \E p \in Procs :
        /\ procs[p].pc = "retrieved"
        /\ procs' = [procs EXCEPT ![p] =
                        [@ EXCEPT !.pc = "listed",
                                  !.ms = Mutations(procs[p].subscription, schedules,
                                                   procs[p].req)]]
        /\ UNCHANGED <<items, schedules, last, calls, sessionVars>>

\* the next provider call of a request, accepted by the provider: the item
\* batch and the phases are built from the subscription the request retrieved;
\* subscriptionSchedules.create copies the items the subscription has now and
\* returns the id the following update addresses
SubmitMutation ==
    \E p \in Procs :
        LET pr == procs[p]
            m == pr.ms[pr.k + 1]
            prov == IF m.call = "create"
                    THEN [items |-> items,
                          schedules |-> schedulesCreate(schedules, items)]
                    ELSE Apply(m, [items |-> items, schedules |-> schedules],
                               pr.subscription, pr.req)
        IN  /\ pr.pc = "listed"
            /\ pr.k < Len(pr.ms)
            /\ Len(prov.items) <= MaxItems
            /\ Len(prov.schedules) <= MaxSchedules
            /\ items' = prov.items
            /\ schedules' = prov.schedules
            /\ procs' = [procs EXCEPT ![p] =
                  [@ EXCEPT !.k = pr.k + 1,
                            !.ms = IF m.call = "create"
                                   THEN [pr.ms EXCEPT ![pr.k + 2].id =
                                            FreshId(ScheduleIds(schedules))]
                                   ELSE pr.ms,
                            !.submitted =
                                   IF m.call \in {"updateItems", "updateSchedule"}
                                   THEN <<[call |-> m.call, built |-> pr.subscription,
                                           current |-> items]>>
                                   ELSE pr.submitted]]
            /\ UNCHANGED <<last, calls, sessionVars>>

\* the request returns the success redirect
ReturnSuccess ==
    \E p \in Procs :
        /\ procs[p].pc = "listed"
        /\ procs[p].k = Len(procs[p].ms)
        /\ procs' = [procs EXCEPT ![p] = [@ EXCEPT !.pc = "done"]]
        /\ UNCHANGED <<items, schedules, last, calls, sessionVars>>

NextRace ==
    \/ SubscriptionsRetrieve
    \/ SchedulesList
    \/ SubmitMutation
    \/ ReturnSuccess

(* ----------------- how the subscription came to exist ------------------ *)

\* the line items of createSubscriptionCheckoutUrl
checkoutLineItems(plan, cycle, activeFlows, projects, userSeats) ==
    <<[price |-> planPrice(plan, cycle), quantity |-> 1],
      [price |-> AI_CREDIT_PRICE_ID[cycle], quantity |-> Undefined]>>
    \o (IF activeFlows > 0
        THEN <<[price |-> ACTIVE_FLOW_PRICE_ID[cycle], quantity |-> activeFlows]>>
        ELSE <<>>)
    \o (IF projects > 0
        THEN <<[price |-> PROJECT_PRICE_ID[cycle], quantity |-> projects]>>
        ELSE <<>>)
    \o (IF userSeats > 0
        THEN <<[price |-> USER_SEAT_PRICE_ID[cycle], quantity |-> userSeats]>>
        ELSE <<>>)

\* the items of the subscription startTrial creates
trialItems(plan) == <<[price |-> planPrice(plan, "monthly"), quantity |-> 1]>>

\* the provider numbers the line items of a new subscription
WithIds(lineItems) ==
    [i \in 1..Len(lineItems) |->
        [id |-> i, price |-> lineItems[i].price, quantity |-> lineItems[i].quantity]]

\* another subscription of the same customer gets a schedule of its own
OtherSubscriptionScheduled ==
    /\ last.op = "none"
    /\ Len(schedules) < MaxSchedules
    /\ \A i \in 1..Len(schedules) :
          "O" \notin {schedules[i].subscription, schedules[i].released_subscription}
    /\ \E st \in {"active", "not_started"} :
         schedules' =
            <<[id |-> FreshId(ScheduleIds(schedules)), subscription |-> "O",
               released_subscription |-> "none", status |-> st,
               phases |-> <<[items |-> <<[price |-> ACTIVE_FLOW_PRICE_ID["monthly"],
                                          quantity |-> 1]>>,
                             start_date |-> current_period_start,
                             end_date |-> current_period_end]>>,
               end_behavior |-> "release"]>> \o schedules
    /\ UNCHANGED <<items, last, calls, sessionVars, procs>>

NoCall ==
    [op |-> "none", req |-> NoRequest, fail |-> NoFailure,
     outcome |-> [path |-> "", action |-> "", plan |-> "", url |-> <<>>],
     preItems |-> <<>>, preSchedules |-> <<>>, batch |-> <<>>,
     attempts |-> <<>>, updateCalls |-> 0, proration |-> "",
     updated |-> {}, created |-> {}, released |-> {},
     retry |-> FALSE,
     prev |-> [outcome |-> [path |-> "", action |-> "", plan |-> "", url |-> <<>>],
               updated |-> {}, created |-> {}, fail |-> NoFailure,
               preSchedules |-> <<>>]]

\* the caller takes the outcome; the request is not retained
Return ==
    /\ last.op # "none"
    /\ last' = NoCall
    /\ UNCHANGED <<items, schedules, calls, sessionVars, procs>>

\* the subscriptions a behaviour starts from: one bought at checkout, or a
\* trial subscription
InitSubscriptions ==
    {WithIds(checkoutLineItems("business", "monthly", 0, 0, 0)),
     WithIds(checkoutLineItems("business", "annual", MaxQty, 0, 0)),
     WithIds(trialItems("plus"))}

Init ==
    /\ items \in InitSubscriptions
    /\ schedules = <<>>
    /\ last = NoCall
    /\ calls = 0
    /\ InitSession
    /\ InitProcs

\* the provider accepts every call
Next == PlanChange \/ Return \/ OtherSubscriptionScheduled

Spec == Init /\ [][Next]_vars

\* the provider may reject a call; the caller re-issues the same request or
\* stops
NextFail ==
    \/ PlanChange
    \/ PlanChangeRejected
    \/ AddonOnlyChange
    \/ AddonOnlyChangeRejected
    \/ OtherSubscriptionScheduled

SpecFail == Init /\ [][NextFail]_vars

\* the checkout and trial session builder with its collaborators
SpecSession == Init /\ [][NextSession]_vars

\* two plan changes for the same subscription whose provider calls interleave
SpecRace == Init /\ [][NextRace]_vars

\* a deferred request that completed before the behaviour starts
EarlierDowngrade ==
    [NoRequest EXCEPT !.newPlan = "plus"]

\* the subscription with the schedule an earlier deferred request left
InitRetry ==
    /\ items \in InitSubscriptions
    /\ \E earlier \in {<<>>, <<EarlierDowngrade>>} :
          schedules = IF earlier = <<>> THEN <<>>
                      ELSE Run(Mutations(items, <<>>, earlier[1]), 2,
                               [items |-> items, schedules |-> <<>>],
                               items, earlier[1]).schedules
    /\ last = NoCall
    /\ calls = 0
    /\ InitSession
    /\ InitProcs

\* plan changes whose provider calls may be rejected and are then re-issued
NextRetry ==
    \/ PlanChange
    \/ PlanChangeRejected
    \/ OtherSubscriptionScheduled

SpecRetry == InitRetry /\ [][NextRetry]_vars

\* plan changes whose audit log entry may fail to be written
NextLog ==
    \/ PlanChange
    \/ PlanChangeLogFails
    \/ OtherSubscriptionScheduled

SpecLog == InitRetry /\ [][NextLog]_vars

\* the addon-only variant called again and again
NextAddonOnly ==
    \/ AddonOnlyChange
    \/ AddonOnlyChangeRejected
    \/ Return

SpecAddonOnly == Init /\ [][NextAddonOnly]_vars

(* ======================= properties of the claims ====================== *)

Called == last.op = "handleSubscriptionUpdate"

Succeeded == last.outcome.path = SuccessPath

LastReq == last.req

Pair(x) == [price |-> x.price, quantity |-> x.quantity]

Count(seq, pair) == Cardinality({i \in 1..Len(seq) : Pair(seq[i]) = pair})

\* the same (price, quantity) pairs, each as often
SamePairs(s, t) ==
    \A x \in {Pair(s[i]) : i \in 1..Len(s)} \cup {Pair(t[i]) : i \in 1..Len(t)} :
        Count(s, x) = Count(t, x)

\* the catalog's base price of a plan: only PLUS and BUSINESS have one
CatalogBase(plan, cycle) ==
    IF plan = "plus" THEN PLUS_PLAN_PRICE_ID[cycle]
    ELSE IF plan = "business" THEN BUSINESS_PLAN_PRICE_ID[cycle]
    ELSE NoPrice

\* the (price, quantity) pairs a request asks for
RequestedPairs(r) ==
    {[price |-> CatalogBase(r.newPlan, r.newCycle), quantity |-> 1],
     [price |-> AI_CREDIT_PRICE_ID[r.newCycle], quantity |-> Undefined]}
    \cup {[price |-> USER_SEAT_PRICE_ID[r.newCycle], quantity |-> q] :
             q \in {r.extraUserSeats} \ {0}}
    \cup {[price |-> PROJECT_PRICE_ID[r.newCycle], quantity |-> q] :
             q \in {r.extraProjects} \ {0}}
    \cup {[price |-> ACTIVE_FLOW_PRICE_ID[r.newCycle], quantity |-> q] :
             q \in {r.extraActiveFlows} \ {0}}

\* seq holds exactly the requested pairs, each once
Reflects(seq, r) ==
    /\ \A i \in 1..Len(seq) : Pair(seq[i]) \in RequestedPairs(r)
    /\ \A w \in RequestedPairs(r) : Count(seq, w) = 1

\* a schedule the orchestrator's filter keeps
Relevant(sch) ==
    sch.subscription = "S" \/ sch.status \in {"active", "not_started"}

RelevantIds(scheds) == {scheds[i].id : i \in {j \in 1..Len(scheds) : Relevant(scheds[j])}}

BoundIds(scheds) ==
    {scheds[i].id : i \in {j \in 1..Len(scheds) : scheds[j].subscription = "S"}}

ScheduleOf(scheds, id) == scheds[CHOOSE i \in 1..Len(scheds) : scheds[i].id = id]

\* no schedule was created and none had its phases or end behavior rewritten
NoScheduleWritten ==
    /\ last.created = {} /\ last.updated = {}
    /\ Len(schedules) = Len(last.preSchedules)
    /\ \A i \in 1..Len(schedules) :
          /\ schedules[i].id = last.preSchedules[i].id
          /\ schedules[i].phases = last.preSchedules[i].phases
          /\ schedules[i].end_behavior = last.preSchedules[i].end_behavior

\* C1: a successful upgrade leaves the subscription with exactly the requested
\* plan, cycle and addon items, and creates or rewrites no schedule
C1_UpgradeIsImmediate ==
    (Called /\ Succeeded /\ LastReq.isUpgrade)
        => (Reflects(items, LastReq) /\ NoScheduleWritten)

\* phases of a schedule are the snapshot of the pre-call items followed by the
\* requested items, the second starting at the end of the cycle window
DeferredPhases(sch) ==
    /\ Len(sch.phases) = 2
    /\ SamePairs(sch.phases[1].items, last.preItems)
    /\ Reflects(sch.phases[2].items, LastReq)
    /\ sch.phases[2].start_date = getSubscriptionCycleDates(last.preItems).endDate

\* C2: a successful non-free downgrade leaves the items unchanged, sends no item
\* batch, and leaves exactly one relevant schedule, whose phase 1 is the pre-call
\* items and whose phase 2 is the requested items starting at the window's end
C2_DowngradeIsDeferred ==
    (Called /\ Succeeded /\ ~LastReq.isUpgrade /\ ~LastReq.isFreeDowngrade)
        => /\ items = last.preItems
           /\ last.batch = <<>>
           /\ Cardinality(RelevantIds(schedules)) = 1
           /\ \A id \in RelevantIds(schedules) : DeferredPhases(ScheduleOf(schedules, id))

\* C3: the schedule a free downgrade writes has one phase, the subscription's
\* current items ending at the window's end, and end behavior cancel
C3_FreeDowngradeCancels ==
    (Called /\ ~LastReq.isUpgrade /\ LastReq.isFreeDowngrade)
        => \A id \in last.updated :
              LET sch == ScheduleOf(schedules, id)
              IN  /\ Len(sch.phases) = 1
                  /\ SamePairs(sch.phases[1].items, last.preItems)
                  /\ sch.phases[1].end_date = getSubscriptionCycleDates(last.preItems).endDate
                  /\ sch.end_behavior = "cancel"

\* the second of two identical successful requests in succession has returned
Retried == Called /\ last.retry /\ last.prev.outcome.path = SuccessPath /\ Succeeded

\* C4: after the same deferred request was issued twice in succession at most
\* one schedule is relevant, and the second call rewrote the schedule the first
\* call wrote and created none
C4_DeferredIdempotent ==
    (Retried /\ ~LastReq.isUpgrade)
        => /\ Cardinality(RelevantIds(schedules)) <= 1
           /\ last.created = {}
           /\ last.updated = last.prev.updated

C4_Witness ==
    /\ Retried /\ ~LastReq.isUpgrade /\ ~LastReq.isFreeDowngrade
    /\ last.prev.created # {}
    /\ last.updated = last.prev.created

\* the item kinds: base plan, AI credits, seats, projects, active flows
Kinds ==
    {{PLUS_PLAN_PRICE_ID[c] : c \in BillingCycle} \cup
     {BUSINESS_PLAN_PRICE_ID[c] : c \in BillingCycle}}
    \cup {{cat[c] : c \in BillingCycle} : cat \in Catalogs \ {PLUS_PLAN_PRICE_ID,
                                                            BUSINESS_PLAN_PRICE_ID}}

OneItemPerKind(seq) ==
    \A kind \in Kinds : Cardinality({i \in 1..Len(seq) : seq[i].price \in kind}) <= 1

\* C5: the second of two identical successful upgrades leaves the items as the
\* first left them and adds no line item
C5_ImmediateIdempotent ==
    (Retried /\ LastReq.isUpgrade)
        => /\ SamePairs(items, last.preItems)
           /\ \A i \in 1..Len(last.batch) :
                 ~last.batch[i].deleted => last.batch[i].id # NoId

\* C6: after a successful upgrade that switches the cycle every pre-call item is
\* gone, no batch entry that adds an item reuses an id, no item is priced under
\* the old cycle and exactly one base item is priced under the new cycle
C6_CycleSwitchRebuilds ==
    (Called /\ Succeeded /\ LastReq.isUpgrade /\ LastReq.newCycle # LastReq.currentCycle)
        => /\ ItemIds(last.preItems) \cap ItemIds(items) = {}
           /\ \A i \in 1..Len(last.batch) :
                 ~last.batch[i].deleted => last.batch[i].id = NoId
           /\ \A i \in 1..Len(items) :
                 items[i].price \notin CyclePrices(LastReq.currentCycle)
           /\ Cardinality({i \in 1..Len(items) :
                              items[i].price \in BasePrices(LastReq.newCycle)}) = 1

\* the quantity a request asks for the addon of catalog cat
Target(r, cat) ==
    IF cat = USER_SEAT_PRICE_ID THEN r.extraUserSeats
    ELSE IF cat = PROJECT_PRICE_ID THEN r.extraProjects
    ELSE r.extraActiveFlows

OfKind(seq, cat) == {i \in 1..Len(seq) : seq[i].price \in {cat[c] : c \in BillingCycle}}

NoZeroAddon(seq) ==
    \A i \in 1..Len(seq) : seq[i].price \in AddonPrices => seq[i].quantity # 0

\* C7: a target of 0 for an addon the subscription holds leaves no item of that
\* kind (in the items after an upgrade, in the new phase after a downgrade), and
\* no item, batch entry or phase item is an addon of quantity 0
C7_NoZeroQuantityAddon ==
    /\ NoZeroAddon(items)
    /\ NoZeroAddon(last.batch)
    /\ \A i \in 1..Len(schedules) : \A k \in 1..Len(schedules[i].phases) :
          NoZeroAddon(schedules[i].phases[k].items)
    /\ (Called /\ Succeeded /\ ~LastReq.isFreeDowngrade) =>
          \A cat \in AddonCatalogs :
             (/\ Target(LastReq, cat) = 0
              /\ \E i \in OfKind(last.preItems, cat) : last.preItems[i].quantity > 0)
             => IF LastReq.isUpgrade
                THEN OfKind(items, cat) = {}
                ELSE \A id \in last.updated :
                        OfKind(ScheduleOf(schedules, id).phases[2].items, cat) = {}

\* C8: when a downgrade finds several relevant schedules, one of them bound to
\* the subscription, the bound one is rewritten, the others are released and one
\* relevant schedule remains
C8_BoundScheduleWins ==
    (/\ Called /\ Succeeded /\ ~LastReq.isUpgrade
     /\ Cardinality(RelevantIds(last.preSchedules)) > 1
     /\ BoundIds(last.preSchedules) # {})
        => /\ last.updated = BoundIds(last.preSchedules)
           /\ last.released = RelevantIds(last.preSchedules) \ BoundIds(last.preSchedules)
           /\ Cardinality(RelevantIds(schedules)) = 1

\* C9: every call of handleSubscriptionUpdate (either variant) returns, with
\* the error redirect exactly when one of its provider calls failed and the
\* value of its success return otherwise
C9_NeverRaises ==
    last.op # "none"
        => /\ last.outcome.path = ErrorPath <=> last.fail # NoFailure
           /\ last.outcome.path # ErrorPath =>
                 last.outcome.path = IF Called THEN SuccessPath ELSE AddonOnlySuccessPath

C9_Witness ==
    /\ Called /\ last.fail.at = "mutation" /\ last.fail.k = 2
    /\ last.released # {}
    /\ last.outcome.path = ErrorPath

\* C10: at most one active or not-started schedule is attached to the
\* subscription
C10_OneSchedulePerSubscription ==
    Cardinality({i \in 1..Len(schedules) :
                    /\ schedules[i].subscription = "S"
                    /\ schedules[i].status \in {"active", "not_started"}}) <= 1

C10_Witness ==
    /\ calls = 2 /\ Called /\ Succeeded /\ ~LastReq.isUpgrade /\ ~last.retry
    /\ last.created = {}
    /\ BoundIds(schedules) # {}
    /\ BoundIds(schedules) = last.updated

\* the schedule a call created
CreatedSchedules == {ScheduleOf(schedules, id) : id \in last.created}

\* C12: a successful non-free downgrade of a subscription without a relevant
\* schedule creates a schedule bound to the subscription, whose phase 1 ends at
\* the end of the subscription's current billing period, whose phase 2 starts
\* at that boundary, and whose end behavior is release
C12_DeferredEffectiveDate ==
    (/\ Called /\ Succeeded /\ ~LastReq.isUpgrade /\ ~LastReq.isFreeDowngrade
     /\ RelevantIds(last.preSchedules) = {})
        => /\ last.created # {}
           /\ \A sch \in CreatedSchedules :
                 /\ sch.subscription = "S"
                 /\ Len(sch.phases) = 2
                 /\ sch.phases[1].end_date = current_period_end
                 /\ sch.phases[2].start_date = current_period_end
                 /\ sch.end_behavior = "release"

\* the window the specification gives a subscription: that of its active-flow
\* item, of either cycle, with the subscription's cancel date; the calendar
\* month without a cancel date if it has none
WindowOf(subItems, cancel_at) ==
    IF OfKind(subItems, ACTIVE_FLOW_PRICE_ID) # {}
    THEN [startDate |-> current_period_start, endDate |-> current_period_end,
          cancelDate |-> cancel_at]
    ELSE [startDate |-> defaultStartDate, endDate |-> defaultEndDate,
          cancelDate |-> Undefined]

\* C13: for the subscription's items and every cancel date,
\* getSubscriptionCycleDates returns the period and the cancel date of the
\* active-flow item when there is one, of either cycle, and the calendar month
\* without a cancel date only when there is none; so does the addon-only
\* variant for the one active-flow price it knows
C13_CycleWindow ==
    \A ca \in CancelAts :
        /\ getSubscriptionCycleDatesOf(items, ca) = WindowOf(items, ca)
        /\ (\A i \in OfKind(items, ACTIVE_FLOW_PRICE_ID) :
                items[i].price = AddonOnly_ACTIVE_FLOW_PRICE_ID)
              => AddonOnly_getSubscriptionCycleDates(items, ca) = WindowOf(items, ca)

\* C18: the phase 1 a successful deferred request that changes the cycle writes
\* holds exactly the (price, quantity) pairs of the subscription's items
C18_PhaseOneFaithfulOnCycleChange ==
    (/\ Called /\ Succeeded /\ ~LastReq.isUpgrade
     /\ LastReq.newCycle # LastReq.currentCycle)
        => \A id \in last.updated :
              SamePairs(ScheduleOf(schedules, id).phases[1].items, last.preItems)

\* the first position of token tok in the sequence url, 0 when it is absent
IndexOf(url, tok) ==
    LET hit == {i \in 1..Len(url) : url[i] = tok}
    IN  IF hit = {} THEN 0 ELSE CHOOSE i \in hit : \A j \in hit : i <= j

\* the part of a URL after its first "?"
QueryOf(url) ==
    IF IndexOf(url, "?") = 0 THEN <<>>
    ELSE SubSeq(url, IndexOf(url, "?") + 1, Len(url))

RECURSIVE SplitAt(_, _)
\* a token sequence cut at every occurrence of sep
SplitAt(q, sep) ==
    IF IndexOf(q, sep) = 0 THEN <<q>>
    ELSE <<SubSeq(q, 1, IndexOf(q, sep) - 1)>>
         \o SplitAt(SubSeq(q, IndexOf(q, sep) + 1, Len(q)), sep)

\* the values of the query parameter called name, as a URL parser reads them:
\* neither names nor values are trimmed
ParamValues(url, name) ==
    LET pairs == SplitAt(QueryOf(url), "&")
    IN  {SubSeq(pairs[i], IndexOf(pairs[i], "=") + 1, Len(pairs[i])) :
            i \in {j \in 1..Len(pairs) :
                      /\ IndexOf(pairs[j], "=") > 0
                      /\ SubSeq(pairs[j], 1, IndexOf(pairs[j], "=") - 1) = <<name>>}}

\* C17: the redirect a successful request returns has the query parameter
\* action with value upgrade exactly when isUpgrade holds and downgrade
\* otherwise, and the query parameter plan with the requested plan
C17_RedirectEncodesActionAndPlan ==
    (Called /\ Succeeded)
        => /\ ParamValues(last.outcome.url, "action") =
                 {<<IF LastReq.isUpgrade THEN "upgrade" ELSE "downgrade">>}
           /\ ParamValues(last.outcome.url, "plan") = {<<LastReq.newPlan>>}

\* the redirect of the addon-only variant, written without blanks, carries its
\* action under the same reading
AddonOnlyRedirectCarriesAction ==
    (last.op = "handleSubscriptionUpdateAddonOnly"
        /\ last.outcome.path = AddonOnlySuccessPath)
        => ParamValues(last.outcome.url, "action") = {<<last.outcome.action>>}

\* the state one uninterrupted successful run of the last request would have
\* left, started where the failed call started
Uninterrupted ==
    LET ms == Mutations(last.preItems, last.prev.preSchedules, LastReq)
    IN  Run(ms, Len(ms),
            [items |-> last.preItems, schedules |-> last.prev.preSchedules],
            last.preItems, LastReq)

\* the last call was the successful re-issue of a deferred request that had
\* failed after at least one of its mutations
RetriedAfterPartialFailure ==
    /\ Called /\ Succeeded /\ last.retry /\ ~LastReq.isUpgrade
    /\ last.prev.fail.at = "mutation" /\ last.prev.fail.k >= 2

\* C19: re-issuing a deferred request that failed after the schedule was
\* created, or after the first schedule was rewritten, leaves the state one
\* uninterrupted run would have left: one relevant schedule with the phases of
\* the request
C19_RetryConverges ==
    RetriedAfterPartialFailure
        => /\ items = Uninterrupted.items
           /\ schedules = Uninterrupted.schedules
           /\ Cardinality(RelevantIds(schedules)) = 1
           /\ \A id \in RelevantIds(schedules) :
                 /\ ScheduleOf(schedules, id).phases =
                       schedulePhases(last.preItems, LastReq)
                 /\ ScheduleOf(schedules, id).end_behavior =
                       scheduleEndBehavior(LastReq)

\* the failed call had rewritten the first schedule and not yet released the
\* other; the re-issue released it
C19_Witness ==
    /\ RetriedAfterPartialFailure
    /\ last.prev.created = {} /\ last.prev.updated # {}
    /\ last.released # {}

\* the failed call had created the schedule and not yet written its phases
C19_WitnessCreated ==
    /\ RetriedAfterPartialFailure
    /\ last.prev.created # {} /\ last.prev.updated = {}
    /\ last.updated = last.prev.created

GiftCalled == ret.op = "giftTrialForCustomer"

\* the trial end a gift asks for
GiftedTrialEnd == now + MonthLength * ret.params.trialPeriod

\* the subscriptions other than id are as before the call
OthersUntouched(id) ==
    /\ Len(subs) = Len(ret.pre.subs)
    /\ \A i \in (1..Len(subs)) \ {id} : subs[i] = ret.pre.subs[i]

C14_WitnessCanceled ==
    /\ GiftCalled /\ ret.obstacle = "none"
    /\ ret.pre.platformPlan.stripeSubscriptionStatus = "canceled"
    /\ redis.set /\ ~ret.pre.redis.set

\* a gift for a platform with a live paid subscription was refused
C14_WitnessRefused ==
    /\ GiftCalled /\ ret.obstacle = "none"
    /\ ret.pre.platformPlan.stripeSubscriptionStatus = "active"
    /\ ret.result.kind = "message"

\* C15: giftTrialForCustomer never raises: whatever stops it, it returns a
\* result with a message
C15_GiftTrialNeverRaises ==
    GiftCalled
        => /\ ret.result.kind # "raised"
           /\ ret.obstacle # "none" =>
                 ret.result.kind = "message" /\ ret.result.message # ""

\* C16: the checkout session functions and startTrial do not raise when Stripe
\* is not configured or the provider rejects the call: they return an error
\* path
C16_SessionFunctionsNeverRaise ==
    (ret.op \in CheckoutFunctions \cup {"startTrial"})
        => /\ ret.result.kind # "raised"
           /\ ret.obstacle \in {"notCloud", "secretMissing", "create", "cancel"}
                 => ret.result.kind = "errorPath"

\* both concurrent requests have returned
RaceDone == \A p \in Procs : procs[p].pc = "done"

\* the provider's state after request ra alone and then request rb alone
Sequential(prov, ra, rb) ==
    LET msa == Mutations(prov.items, prov.schedules, ra)
        a == Run(msa, Len(msa), prov, prov.items, ra)
        msb == Mutations(a.items, a.schedules, rb)
    IN  Run(msb, Len(msb), a, a.items, rb)

\* the schedules of the subscription that are active or not started
LiveSchedules(scheds) ==
    {i \in 1..Len(scheds) :
        scheds[i].subscription = "S" /\ scheds[i].status \in {"active", "not_started"}}

\* the same line items and the same live schedules, whatever their ids
SameProviderState(x, y) ==
    /\ SamePairs(x.items, y.items)
    /\ Cardinality(LiveSchedules(x.schedules)) = Cardinality(LiveSchedules(y.schedules))
    /\ {[phases |-> x.schedules[i].phases, end_behavior |-> x.schedules[i].end_behavior] :
           i \in LiveSchedules(x.schedules)}
       = {[phases |-> y.schedules[i].phases, end_behavior |-> y.schedules[i].end_behavior] :
           i \in LiveSchedules(y.schedules)}

\* C11: when two concurrent plan changes for the same subscription have both
\* returned, the provider's state is the one that one of the two requests would
\* have produced running alone after the other, no item kind has two line
\* items, and at most one active or not-started schedule exists
C11_LastWriteWins ==
    RaceDone =>
        LET prov == procs[1].origin[1]
            final == [items |-> items, schedules |-> schedules]
        IN  /\ \/ SameProviderState(final, Sequential(prov, procs[1].req, procs[2].req))
               \/ SameProviderState(final, Sequential(prov, procs[2].req, procs[1].req))
            /\ OneItemPerKind(items)
            /\ Cardinality(LiveSchedules(schedules)) <= 1

\* C20: the items from which a request built the item batch or the phase-1
\* snapshot it submitted are the items the subscription had when the call was
\* submitted
C20_NoStaleSnapshot ==
    \A p \in Procs :
        \A i \in 1..Len(procs[p].submitted) :
            procs[p].submitted[i].built = procs[p].submitted[i].current

\* C21: after a successful upgrade no active or not-started schedule remains
\* for the subscription
C21_UpgradeCancelsPendingChange ==
    (Called /\ Succeeded /\ LastReq.isUpgrade) => LiveSchedules(schedules) = {}

\* an upgrade released the two-phase schedule an earlier downgrade left
C21_Witness ==
    /\ Called /\ Succeeded /\ LastReq.isUpgrade
    /\ \E i \in LiveSchedules(last.preSchedules) :
          /\ Len(last.preSchedules[i].phases) = 2
          /\ last.preSchedules[i].id \in last.released
    /\ LiveSchedules(schedules) = {}

\* the prices of seq belong to one billing cycle
SingleCycle(seq) ==
    \E c \in BillingCycle : \A i \in 1..Len(seq) : seq[i].price \in CyclePrices(c)

\* C22: the subscription's items are priced under one billing cycle, and so are
\* the items of every phase of a schedule of the subscription
C22_SingleCycle ==
    /\ SingleCycle(items)
    /\ \A i \in 1..Len(schedules) :
          "S" \in {schedules[i].subscription, schedules[i].released_subscription}
             => \A k \in 1..Len(schedules[i].phases) :
                   SingleCycle(schedules[i].phases[k].items)

\* the item of seq with the id of item x
KeptAs(seq, x) == {j \in 1..Len(seq) : seq[j].id = x.id}

\* C23: a successful same-cycle upgrade of a subscription with one item per kind
\* leaves the base item on its id with the new plan's price, leaves every addon
\* of positive target that existed on its id with the target quantity, and
\* leaves at most one line item per kind
C23_SameCycleInPlace ==
    (/\ Called /\ Succeeded /\ LastReq.isUpgrade
     /\ LastReq.newCycle = LastReq.currentCycle
     /\ OneItemPerKind(last.preItems))
        => /\ \A i \in 1..Len(last.preItems) :
                 last.preItems[i].price \in BasePrices("monthly") \cup BasePrices("annual")
                    => \E j \in KeptAs(items, last.preItems[i]) :
                          items[j].price = CatalogBase(LastReq.newPlan, LastReq.newCycle)
           /\ \A cat \in AddonCatalogs :
                 Target(LastReq, cat) > 0 =>
                    \A i \in OfKind(last.preItems, cat) :
                       \E j \in KeptAs(items, last.preItems[i]) :
                          /\ items[j].price = cat[LastReq.newCycle]
                          /\ items[j].quantity = Target(LastReq, cat)
           /\ OneItemPerKind(items)

\* C24: a gift-trial record in the ephemeral store has a time-to-live
C24_GiftRecordExpires ==
    redis.set => redis.ttl # Undefined

\* startTrial returned after creating the trial subscription
TrialStarted ==
    ret.op = "startTrial" /\ ret.result.kind = "undefined"

\* C25: after startTrial has created a trial subscription from a stored gift
\* offer, the offer is no longer in the store, where a later startTrial would
\* read it again
C25_GiftConsumedOnce ==
    (TrialStarted /\ ret.pre.redis.set) => ~redis.set

\* the subscription the last startTrial created
StartedTrial == subs[Len(subs)]

\* C30: the trial subscription startTrial creates has the stored offer's trial
\* end and plan when the store holds an offer, and otherwise a trial end 14 days
\* from now and the requested plan; its only item is the monthly base price of
\* that plan with quantity 1
C30_StartTrialAppliesGift ==
    TrialStarted =>
        LET offer == ret.pre.redis
            chosen == IF offer.set THEN offer.trialPlan ELSE ret.params.plan
        IN  /\ Len(subs) = Len(ret.pre.subs) + 1
            /\ StartedTrial.status = "trialing"
            /\ StartedTrial.trial_end = IF offer.set THEN offer.trialPeriodInUnixTime
                                        ELSE now + DefaultTrialDays
            /\ chosen \in {"plus", "business"}
            /\ StartedTrial.items =
                  <<[price |-> CatalogBase(chosen, "monthly"), quantity |-> 1]>>

\* a trial started from an offer for another plan than the requested one
C30_Witness ==
    /\ TrialStarted
    /\ ret.pre.redis.set
    /\ ret.pre.redis.trialPlan # ret.params.plan
    /\ StartedTrial.trial_end = ret.pre.redis.trialPeriodInUnixTime

\* a trial started without an offer
C30_WitnessDefault ==
    /\ TrialStarted
    /\ ~ret.pre.redis.set
    /\ StartedTrial.trial_end = now + DefaultTrialDays

\* the plan of request r has no price in the catalog and r is not a free
\* downgrade, which needs none
Unpriced(r) == CatalogBase(r.newPlan, r.newCycle) = NoPrice /\ ~r.isFreeDowngrade

\* C26: a request for a plan without a catalog price returns the error redirect
\* and makes no provider mutation: no item batch, no schedule created, rewritten
\* or released, items and schedules as before the call
C26_UnpricedPlanFails ==
    (Called /\ Unpriced(LastReq))
        => /\ last.outcome.path = ErrorPath
           /\ last.batch = <<>>
           /\ last.created = {} /\ last.updated = {} /\ last.released = {}
           /\ items = last.preItems
           /\ schedules = last.preSchedules

\* the relevant schedules a deferred request found besides the one it rewrites
ExtraSchedules ==
    LET rel == relevantSchedules(last.preSchedules)
    IN  {rel[i].id : i \in 2..Len(rel)}

\* C27: a deferred request whose audit log entry could not be written after the
\* schedule update returns the success redirect and has released every extra
\* schedule
C27_AuditLogBestEffort ==
    (Called /\ ~LastReq.isUpgrade /\ last.fail.at = "log")
        => /\ Succeeded
           /\ last.released = ExtraSchedules

\* C28: a successful upgrade, in either variant of the orchestrator, makes
\* exactly one subscription update call, with proration behavior
\* always_invoice, and the items after it are the items before it with that one
\* batch applied
C28_OneBatchedWrite ==
    (/\ last.op # "none" /\ last.fail = NoFailure /\ LastReq.isUpgrade)
        => /\ last.updateCalls = 1
           /\ last.proration = "always_invoice"
           /\ items = subscriptionsUpdate(last.preItems, last.batch)

\* the main orchestrator alone makes one batched write
MainVariantOneBatchedWrite ==
    (Called /\ Succeeded /\ LastReq.isUpgrade)
        => /\ last.updateCalls = 1
           /\ last.proration = "always_invoice"
           /\ items = subscriptionsUpdate(last.preItems, last.batch)

\* the mutations the last request had to make, from what it retrieved
LastMutations == Mutations(last.preItems, last.preSchedules, LastReq)

\* C29: within one request no provider mutation is attempted twice; a request
\* that failed before its first mutation attempted none and changed nothing;
\* a request whose k-th mutation failed attempted exactly the first k, left
\* the provider as the first k - 1 leave it, and returned the error redirect
C29_NoInternalRetry ==
    Called =>
        /\ \A i, j \in 1..Len(last.attempts) :
              i # j => last.attempts[i] # last.attempts[j]
        /\ last.fail.at \in ReadFailures =>
              /\ last.attempts = <<>>
              /\ items = last.preItems /\ schedules = last.preSchedules
              /\ last.outcome.path = ErrorPath
        /\ last.fail.at = "mutation" =>
              /\ last.attempts = SubSeq(LastMutations, 1, last.fail.k)
              /\ [items |-> items, schedules |-> schedules]
                    = Run(LastMutations, last.fail.k - 1,
                          [items |-> last.preItems, schedules |-> last.preSchedules],
                          last.preItems, LastReq)
              /\ last.outcome.path = ErrorPath

\* the first of several mutations of a request was rejected
C29_Witness ==
    /\ Called /\ last.fail.at = "mutation" /\ last.fail.k = 1
    /\ Len(LastMutations) > 1
    /\ Len(last.attempts) = 1
    /\ items = last.preItems /\ schedules = last.preSchedules

AddonOnlyCalled == last.op = "handleSubscriptionUpdateAddonOnly"

\* the flow items the addon-only variant knows, before and after the call
FlowItems(seq) == {i \in 1..Len(seq) : seq[i].price = AddonOnly_ACTIVE_FLOW_PRICE_ID}

\* the items of seq other than its flow items, in order
NonFlow(seq) == SelectIndices(seq, (1..Len(seq)) \ FlowItems(seq), 1)

\* C31: a call of the addon-only variant that nothing stops touches no schedule
\* and leaves every other item alone; a target of 0 removes the existing flow
\* item, or, without one, makes no provider write and returns the success
\* redirect; a positive target leaves the existing flow item on its id with the
\* target quantity, or, without one, adds the flow item
C31_AddonOnlyImmediate ==
    (AddonOnlyCalled /\ last.fail = NoFailure)
        => LET target == LastReq.extraActiveFlows
               before == FlowItems(last.preItems)
               after == FlowItems(items)
           IN  /\ schedules = last.preSchedules
               /\ last.created = {} /\ last.updated = {} /\ last.released = {}
               /\ NonFlow(items) = NonFlow(last.preItems)
               /\ last.outcome.path = AddonOnlySuccessPath
               /\ target = 0 => after = {}
               /\ (target = 0 /\ before = {}) =>
                     last.updateCalls = 0 /\ items = last.preItems
               /\ target > 0 =>
                     /\ Cardinality(after) = 1
                     /\ \A j \in after : items[j].quantity = target
                     /\ \A i \in before : \A j \in after :
                           items[j].id = last.preItems[i].id

\* a positive target for a subscription that holds the flow item
C31_Witness ==
    /\ AddonOnlyCalled /\ last.fail = NoFailure
    /\ LastReq.extraActiveFlows > 0
    /\ FlowItems(last.preItems) # {}
    /\ \E i \in FlowItems(last.preItems), j \in FlowItems(items) :
          items[j].id = last.preItems[i].id

\* a target of 0 removed the flow item
C31_WitnessDeleted ==
    /\ AddonOnlyCalled /\ last.fail = NoFailure
    /\ LastReq.extraActiveFlows = 0
    /\ FlowItems(last.preItems) # {}
    /\ FlowItems(items) = {}
    /\ last.updateCalls = 1

\* a target of 0 with nothing to remove
C31_WitnessNoWrite ==
    /\ AddonOnlyCalled /\ last.fail = NoFailure
    /\ LastReq.extraActiveFlows = 0
    /\ FlowItems(last.preItems) = {}
    /\ last.updateCalls = 0

\* the last request failed in a release call
ReleaseFailed ==
    /\ last.fail.at = "mutation"
    /\ last.attempts[last.fail.k].call = "release"

\* C32: an upgrade attempts the item update only after it has released every
\* relevant schedule it found; when a release fails the items are as before the
\* call, no item batch was sent and the error redirect is returned
C32_ReleaseBeforeUpdate ==
    (Called /\ LastReq.isUpgrade)
        => /\ \A k \in 1..Len(last.attempts) :
                 last.attempts[k].call = "updateItems"
                    => /\ \A j \in 1..Len(last.attempts) :
                             last.attempts[j].call = "release" => j < k
                       /\ last.released = RelevantIds(last.preSchedules)
           /\ ReleaseFailed =>
                 /\ items = last.preItems
                 /\ last.batch = <<>>
                 /\ last.updateCalls = 0
                 /\ last.outcome.path = ErrorPath

\* the second release of an upgrade failed after the first was made
C32_Witness ==
    /\ Called /\ LastReq.isUpgrade
    /\ ReleaseFailed /\ last.fail.k = 2
    /\ last.released # {}
    /\ items = last.preItems
    /\ last.outcome.path = ErrorPath

\* an upgrade released a schedule and then updated the items
C32_WitnessUpdated ==
    /\ Called /\ LastReq.isUpgrade /\ Succeeded
    /\ last.released # {}
    /\ last.updateCalls = 1

\* C33: a plan change for the subscription leaves every schedule bound to
\* another subscription of the customer as it was: not released, not rewritten
C33_OtherSubscriptionsUntouched ==
    Called =>
        \A i \in 1..Len(last.preSchedules) :
            last.preSchedules[i].subscription = "O"
               => /\ last.preSchedules[i].id \notin last.released \cup last.updated
                  /\ ScheduleOf(schedules, last.preSchedules[i].id) = last.preSchedules[i]

\* the customer's subscriptions that are not canceled
LiveSubscriptions(ss) == {i \in 1..Len(ss) : ss[i].status # "canceled"}

\* C34: after startTrial has returned, the subscription whose id it was given
\* is canceled, and the only live subscription of the customer is the trial
\* subscription the call created
C34_OneLiveSubscription ==
    TrialStarted =>
        /\ ret.params.existingSubscriptionId # NoSubscription
              => subs[ret.params.existingSubscriptionId].status = "canceled"
        /\ LiveSubscriptions(subs) = {Len(subs)}
        /\ StartedTrial.trialSubscription
        /\ Len(subs) = Len(ret.pre.subs) + 1

\* the plan the last startTrial had to use: the stored offer's, else the
\* requested one
EffectiveTrialPlan ==
    IF ret.pre.redis.set THEN ret.pre.redis.trialPlan ELSE ret.params.plan

\* C35: a startTrial whose effective plan is neither PLUS nor BUSINESS raises
\* and leaves the customer's subscriptions as they were: nothing cancelled,
\* nothing created
C35_ValidatesBeforeMutating ==
    (ret.op = "startTrial" /\ EffectiveTrialPlan \notin {"plus", "business"})
        => /\ ret.result.kind = "raised"
           /\ subs = ret.pre.subs

\* a trial for the free plan was asked for in place of a live subscription,
\* with nothing else in the way
C35_Witness ==
    /\ ret.op = "startTrial" /\ ret.obstacle = "none"
    /\ EffectiveTrialPlan = "free"
    /\ ret.params.existingSubscriptionId # NoSubscription
    /\ ret.pre.subs[ret.params.existingSubscriptionId].status # "canceled"
    /\ ret.result.kind = "raised"
    /\ subs = ret.pre.subs

====
